---- MODULE Spec2Model ----
(***************************************************************************)
(* A model of fetch_cards.py: the PTCGP card image downloader.             *)
(*                                                                         *)
(* One PTCGPDownloader run: the catalog is fetched per series, every set   *)
(* is fanned out into process_card coroutines (bulk mode) or probe_cards   *)
(* coroutines (probe mode), and every coroutine advances from one          *)
(* suspension point (semaphore wait, HTTP request, retry sleep) to the     *)
(* next.  Strings the code computes with (set codes, URL path segments)    *)
(* are sequences of one-character strings.                                 *)
(***************************************************************************)
EXTENDS Integers, Sequences, FiniteSets, TLC

VARIABLES
    series_list,     \* self.series_list
    languages,       \* self.languages
    max_concurrency, \* self.max_concurrency
    api,             \* the catalog host: series -> JSON array, or "error"
    remote,          \* the primary image host: the URLs it serves
    fbremote,        \* the fallback image host: the URLs it serves
    files,           \* the image tree on disk: the paths that exist
    semaphore,       \* self.semaphore._value
    stats,           \* self.stats
    failed_items,    \* self.failed_items
    missing_items,   \* self.missing_items
    fallback_items,  \* self.fallback_items
    all_sets,        \* run(): all_sets
    phase,           \* run(): where the orchestrator is
    fetched,         \* run(): how many series have been fetched
    launched,        \* run(): how many sets process_set has fanned out
    tasks,           \* the coroutines gathered by process_set
    cursor,          \* how many coroutines have run their first step
    faults,          \* transport and filesystem errors injected so far
    history          \* what the runs so far did: answers received, outcomes

vars == << series_list, languages, max_concurrency, api, remote, fbremote,
           files, semaphore, stats, failed_items, missing_items,
           fallback_items, all_sets, phase, fetched, launched, tasks,
           cursor, faults, history >>

(***************************************************************************)
(* Bounds of the model.                                                    *)
(***************************************************************************)
MaxK == 2          \* the concurrency limit ranges over 1..MaxK
MaxFaults == 3     \* errors the environment injects in one run
BulkTotal == 2     \* declared size of the small bulk set

(***************************************************************************)
(* Program constants.                                                      *)
(***************************************************************************)
MaxAttempts == 3          \* stop_after_attempt(3)
WaitMultiplier == 1       \* wait_exponential(multiplier=1, ...)
WaitMin == 1              \* wait_exponential(..., min=1, ...)
WaitMax == 10             \* wait_exponential(..., max=10)
max_number == 200         \* probe_cards(max_number=200)
max_consecutive_404 == 3  \* probe_cards: max_consecutive_404 = 3
PROBE_ESTIMATE == 50      \* run(): PROBE_ESTIMATE = 50

(***************************************************************************)
(* Strings.                                                                *)
(***************************************************************************)
PROMO == << "P", "R", "O", "M", "O" >>
PROMO_DASH == << "P", "R", "O", "M", "O", "-" >>

Lower == << "a", "b", "m", "o", "p", "r" >>
Upper == << "A", "B", "M", "O", "P", "R" >>

\* str.upper() of one character, over the alphabet the model uses
UpperChar(c) ==
    IF \E i \in 1..Len(Lower) : Lower[i] = c
    THEN Upper[CHOOSE i \in 1..Len(Lower) : Lower[i] = c]
    ELSE c

\* str.upper()
StrUpper(s) == [i \in 1..Len(s) |-> UpperChar(s[i])]

\* str.startswith(prefix)
StartsWith(s, prefix) ==
    /\ Len(s) >= Len(prefix)
    /\ SubSeq(s, 1, Len(prefix)) = prefix

\* s[n:]
DropPrefix(s, n) == SubSeq(s, n + 1, Len(s))

Digit == << "0", "1", "2", "3", "4", "5", "6", "7", "8", "9" >>

\* f"{number}" for number >= 0
RECURSIVE Dec(_)
Dec(n) == IF n < 10 THEN << Digit[n + 1] >>
          ELSE Dec(n \div 10) \o << Digit[(n % 10) + 1] >>

Min2(a, b) == IF a < b THEN a ELSE b
Max2(a, b) == IF a > b THEN a ELSE b

RECURSIVE Pow2(_)
Pow2(n) == IF n = 0 THEN 1 ELSE 2 * Pow2(n - 1)

(***************************************************************************)
(* The blacklist.                                                          *)
(***************************************************************************)
A1a == << "A", "1", "a" >>
A2a == << "A", "2", "a" >>
PROMO_A == << "P", "R", "O", "M", "O", "-", "A" >>

BLACKLIST ==
    { << A1a, 63 >>, << A1a, 80 >>, << A1a, 81 >>, << A2a, 75 >>, << A2a, 85 >> }
    \cup { << PROMO_A, i >> : i \in 109..117 }

(***************************************************************************)
(* Paths and URLs.                                                         *)
(***************************************************************************)
\* get_image_path: base_dir/images/<lang>/cards-by-set/<set_code>/<number>.<ext>
get_image_path(lang, set_code, number, ext) ==
    << "images", lang, "cards-by-set", set_code, Dec(number) \o << "." >> \o ext >>

PNG == << "p", "n", "g" >>
WEBP == << "w", "e", "b", "p" >>

\* get_image_url: lang_map.get(lang, lang)
lang_code(lang) ==
    CASE lang = "zh-TW" -> "zh"
      [] lang = "en-US" -> "en"
      [] OTHER -> lang

\* get_image_url: IMAGE_BASE_URL/<set_id>/src/<number>_<lang_code>.png
get_image_url(set_id, number, lang) ==
    << "IMAGE_BASE_URL", set_id, "src", Dec(number), lang_code(lang), PNG >>

\* the fallback URL built of the set code as it is
get_fallback_url_plain(set_code, number) ==
    << "FALLBACK_BASE_URL", "en-US", set_code \o << "-" >> \o Dec(number), WEBP >>

\* get_fallback_url: FALLBACK_BASE_URL/en-US/<set_code>-<number>.webp
get_fallback_url(set_code, number) ==
    LET code == IF StartsWith(StrUpper(set_code), PROMO_DASH)
                THEN << "P", "-" >> \o DropPrefix(set_code, 6)
                ELSE set_code
    IN << "FALLBACK_BASE_URL", "en-US", code \o << "-" >> \o Dec(number), WEBP >>

\* process_card: f"fallback:{card_set.set_code}-{number}"
fallback_tag(set_code, number) ==
    << "fallback:", set_code \o << "-" >> \o Dec(number) >>

\* the exponent taken from the attempt number itself
wait_exponential_late(n) ==
    Max2(Max2(0, WaitMin), Min2(WaitMultiplier * Pow2(n), WaitMax))

\* tenacity wait_exponential(multiplier=1, min=1, max=10) after attempt n
wait_exponential(n) ==
    Max2(Max2(0, WaitMin), Min2(WaitMultiplier * Pow2(n - 1), WaitMax))

(***************************************************************************)
(* The catalog: what the metadata API returns, and the CardSet built of it.*)
(***************************************************************************)
A1 == << "A", "1" >>
B1 == << "B", "1" >>
PROMO_B == << "P", "R", "O", "M", "O", "-", "B" >>
promo_b == << "p", "r", "o", "m", "o", "-", "b" >>
A2 == << "A", "2" >>
B2 == << "B", "2" >>
SeriesA == << "a" >>
SeriesB == << "b" >>

None == << >>   \* JSON null

Item(id, set_code, main_set, n_cards, n_secrets) ==
    [ id |-> id, set_code |-> set_code, main_set |-> main_set,
      set_n_cards |-> n_cards, set_n_secrets |-> n_secrets ]

\* fetch_sets: the CardSet of one kept catalog record
CardSet(item, series) ==
    [ id |-> item.id,
      set_code |-> IF item.set_code = PROMO
                   THEN PROMO_DASH \o StrUpper(series)
                   ELSE item.set_code,
      set_n_cards |-> item.set_n_cards,
      set_n_secrets |-> item.set_n_secrets,
      series |-> series ]

\* fetch_sets: the list returned for a response that parsed
fetch_sets(series, data) ==
    LET kept == SelectSeq(data, LAMBDA item : item.main_set = None)
    IN [ i \in 1..Len(kept) |-> CardSet(kept[i], series) ]

total_cards(card_set) == card_set.set_n_cards + card_set.set_n_secrets

(***************************************************************************)
(* Coroutines.                                                             *)
(***************************************************************************)
NoUrl == << >>
NoResult == << >>

\* a process_card coroutine (probe = FALSE) or a probe_cards coroutine
\* (probe = TRUE) about to call process_card for `number`
NewTask(card_set, lang, number, probe) ==
    [ card_set |-> card_set, lang |-> lang, number |-> number, probe |-> probe,
      pc |-> "start",
      consecutive_404 |-> 0,   \* probe_cards: consecutive_404
      url |-> NoUrl,           \* process_card: url
      fb_url |-> NoUrl,        \* download_from_fallback: url
      attempts |-> 0,          \* download_image calls made by tenacity
      fb_requests |-> 0,       \* session.get calls of download_from_fallback
      delays |-> << >>,        \* the sleeps tenacity made between attempts
      last |-> "none",         \* how the last primary attempt ended
      held |-> 0,              \* permits of self.semaphore held
      old_png |-> "unchecked", \* the old file of a blacklisted card
      result |-> NoResult ]    \* process_card's return value

\* process_set: the coroutines gathered for one set
RECURSIVE BulkTasks(_, _, _)
BulkTasks(card_set, lang, n) ==
    IF n = 0 THEN << >>
    ELSE Append(BulkTasks(card_set, lang, n - 1), NewTask(card_set, lang, n, FALSE))

RECURSIVE process_set(_, _)
process_set(card_set, langs) ==
    IF langs = << >> THEN << >>
    ELSE IF total_cards(card_set) = 0
         THEN << NewTask(card_set, Head(langs), 1, TRUE) >>
              \o process_set(card_set, Tail(langs))
         ELSE BulkTasks(card_set, Head(langs), total_cards(card_set))
              \o process_set(card_set, Tail(langs))

\* the blacklist consulted only after the existence check
is_blacklisted_unless_exists(task) ==
    /\ << task.card_set.set_code, task.number >> \in BLACKLIST
    /\ get_image_path(task.lang, task.card_set.set_code, task.number, PNG) \notin files

\* process_card line 269
is_blacklisted(task) == << task.card_set.set_code, task.number >> \in BLACKLIST

\* the fallback requested in the language of the target
fallback_url_in_language(task) ==
    << "FALLBACK_BASE_URL", task.lang,
       task.card_set.set_code \o << "-" >> \o Dec(task.number), WEBP >>

\* download_from_fallback line 217: url = self.get_fallback_url(set_code, number)
fallback_url(task) == get_fallback_url(task.card_set.set_code, task.number)

\* process_card line 301: url = self.get_image_url(card_set.id, number, lang)
primary_url(task) == get_image_url(task.card_set.id, task.number, task.lang)

\* process_card called without is_probe_mode=True
never_probe_mode(task) == FALSE

\* process_card line 315: if is_probe_mode
is_probe_mode(task) == task.probe

\* the missing list fed with the URL that was tried last
missing_entry_fallback_url(task) == << task.card_set.set_code, task.fb_url >>

\* process_card line 326: the entry appended to missing_items
missing_entry(task) == << task.card_set.set_code, task.url >>

png_path(task) == get_image_path(task.lang, task.card_set.set_code, task.number, PNG)
webp_path(task) == get_image_path(task.lang, task.card_set.set_code, task.number, WEBP)

(***************************************************************************)
(* The record of what the runs did.  The program keeps no such record: it  *)
(* is kept to state what an invocation of process_card ended as, and to    *)
(* let a second run of the tool meet the answers the first run met.        *)
(***************************************************************************)
\* the DownloadTarget of a coroutine
Target(task) == << task.card_set.set_code, task.number, task.lang >>

\* what process_card returned as, read off its return value and the
\* requests it made
Outcome(task) ==
    CASE task.fb_requests > 0 /\ task.result[1] -> "Downloaded-fallback"
      [] task.fb_requests > 0 /\ ~task.result[1] /\ task.url = NoUrl -> "Failed"
      [] task.fb_requests > 0 /\ ~task.result[1] /\ task.url # NoUrl -> "Missing"
      [] task.result = << FALSE, TRUE >> -> "NotFound"
      [] task.result[1] /\ task.attempts = 0 -> "Skipped-exists"
      [] task.result[1] -> "Downloaded"
      [] OTHER -> "Failed"

NoLog == [ catalog |-> << >>, replies |-> {}, outcomes |-> {} ]

\* process_card of coroutine t returned
LogOutcome(h, t, task) ==
    [h EXCEPT !.outcomes = @ \cup { << t, Target(task), Outcome(task) >> }]

\* a request for url, the attempt-th of its coroutine, was answered: kept
\* for the second run to meet the same answer
LogReply(h, url, attempt, kind) ==
    IF h.run = "first"
    THEN [h EXCEPT !.replies = @ \cup { << url, attempt, kind >> }]
    ELSE h

\* the answers the first run got to this request
Recorded(url, attempt) ==
    { r[3] : r \in { q \in history.first.replies : q[1] = url /\ q[2] = attempt } }

\* the second run gets the answer the first run got
Replayed(url, attempt) == Recorded(url, attempt) # {}

Answers(url, attempt, possible) ==
    IF Replayed(url, attempt) THEN Recorded(url, attempt) ELSE possible

\* the answers of the catalog host to the i-th request of a run
CatalogAnswers(i) ==
    IF history.run = "second" /\ i <= Len(history.first.catalog)
    THEN { history.first.catalog[i] }
    ELSE BOOLEAN

(***************************************************************************)
(* The runs the model explores: command line, catalog, hosts, disk.        *)
(***************************************************************************)
AllLangs == { "zh-TW", "en-US" }

\* the primary host serves the cards `present` of set `id` in every language
Serves(id, present) ==
    { get_image_url(id, n, lang) : n \in present, lang \in AllLangs }

\* the fallback host serves the cards `present` of `set_code`
FbServes(set_code, present) == { get_fallback_url(set_code, n) : n \in present }

\* the png files of the cards `present` of `set_code`, in every language
PngFiles(set_code, present) ==
    { get_image_path(lang, set_code, n, PNG) : n \in present, lang \in AllLangs }

Run(series, langs, catalog, disk, primary, fallback) ==
    [ series_list |-> series, languages |-> langs, api |-> catalog,
      files |-> disk, remote |-> primary, fbremote |-> fallback ]

Catalog(a, b) == [ s \in { SeriesA, SeriesB } |-> IF s = SeriesA THEN a ELSE b ]

\* a set of declared size BulkTotal, fetched afresh or resumed
BulkRuns ==
    { Run(<< SeriesA >>, << "zh-TW" >>,
          Catalog(<< Item(1, A1, None, BulkTotal, 0), Item(9, A1a, A1, 5, 0) >>, << >>),
          PngFiles(A1, disk), Serves(1, primary), FbServes(A1, fallback)) :
        disk \in { {}, { 1 } },
        primary \in SUBSET (1..BulkTotal),
        fallback \in { {}, { BulkTotal } } }

\* a one-card set fetched in two languages
LanguageRuns ==
    { Run(<< SeriesA >>, << "zh-TW", "en-US" >>,
          Catalog(<< Item(4, A2a, None, 0, 1) >>, << >>),
          {}, Serves(4, primary), FbServes(A2a, fallback)) :
        primary \in SUBSET { 1 },
        fallback \in SUBSET { 1 } }

\* set A1a declared with 63 cards, resumed after cards 1..61 were fetched
BlacklistRuns ==
    { Run(<< SeriesA >>, << "zh-TW" >>,
          Catalog(<< Item(2, A1a, None, 62, 1) >>, << >>),
          PngFiles(A1a, 1..61 \cup old), Serves(2, primary), FbServes(A1a, fallback)) :
        old \in { {}, { 63 } },
        primary \in { {}, { 62, 63 } },
        fallback \in { {}, { 63 } } }

\* a set of undeclared size, probed
ProbeRuns ==
    { Run(<< SeriesB >>, << "zh-TW" >>,
          Catalog(<< >>, << Item(3, B1, None, 0, 0) >>),
          PngFiles(B1, disk), Serves(3, primary), {}) :
        disk \in { {}, { 2 } },
        primary \in (SUBSET (1..3)) \cup { (1..5) \cup { 7 } } }

\* a probed set that is complete on the primary host, resumed near the ceiling
CeilingRuns ==
    { Run(<< SeriesB >>, << "zh-TW" >>,
          Catalog(<< >>, << Item(3, B1, None, 0, 0) >>),
          PngFiles(B1, 1..disk), Serves(3, 1..max_number + 5), {}) :
        disk \in { max_number - 2, max_number } }

\* set A1a with undeclared size, probed past the blacklisted card 63
ProbeBlacklistRuns ==
    { Run(<< SeriesA >>, << "zh-TW" >>,
          Catalog(<< Item(2, A1a, None, 0, 0) >>, << >>),
          PngFiles(A1a, 1..62 \cup old), Serves(2, 1..64), FbServes(A1a, fallback)) :
        old \in { {}, { 63 } },
        fallback \in { {}, { 63 } } }

\* a one-card set fetched in two languages, then fetched again
RepeatedBulkRuns ==
    { Run(<< SeriesA >>, << "zh-TW", "en-US" >>,
          Catalog(<< Item(7, A2, None, 1, 0) >>, << >>),
          PngFiles(A2, disk), Serves(7, primary), FbServes(A2, fallback)) :
        disk \in { {}, { 1 } },
        primary \in SUBSET { 1 },
        fallback \in SUBSET { 1 } }

\* a probed set whose only card is number 1, scanned, then scanned again
RepeatedProbeRuns ==
    { Run(<< SeriesB >>, << "zh-TW" >>,
          Catalog(<< >>, << Item(8, B2, None, 0, 0) >>),
          {}, Serves(8, { 1 }), {}) }

\* the runs after which the tool is run a second time
RepeatedRuns == RepeatedBulkRuns \cup RepeatedProbeRuns

\* --langs zh-TW,zh-TW: a one-card set fetched with a language named twice
DuplicateRuns ==
    { Run(<< SeriesA >>, << "zh-TW", "zh-TW" >>,
          Catalog(<< Item(7, A2, None, 1, 0) >>, << >>),
          {}, Serves(7, { 1 }), {}) }

\* --series a,b: each series has a promo pool; that of b has 5 cards, of
\* which 1..4 are on disk, and comes from the catalog as PROMO or under a
\* lower-case code of its own
PromoRuns ==
    { Run(<< SeriesA, SeriesB >>, << "zh-TW" >>,
          Catalog(<< Item(5, PROMO, None, 1, 0) >>, << Item(6, code, None, 5, 0) >>),
          PngFiles(CardSet(Item(6, code, None, 5, 0), SeriesB).set_code, 1..4),
          Serves(5, { 1 }) \cup Serves(6, primary),
          FbServes(CardSet(Item(6, code, None, 5, 0), SeriesB).set_code, fallback)) :
        code \in { PROMO, promo_b },
        primary \in { {}, { 5 } },
        fallback \in { {}, { 5 } } }

Runs == BulkRuns \cup LanguageRuns \cup BlacklistRuns \cup ProbeRuns \cup CeilingRuns
        \cup ProbeBlacklistRuns \cup DuplicateRuns \cup PromoRuns

\* PTCGPDownloader.__init__
Init ==
    \E run \in Runs \cup RepeatedRuns, k \in 1..MaxK :
        /\ series_list = run.series_list
        /\ languages = run.languages
        /\ max_concurrency = k
        /\ api = run.api
        /\ remote = run.remote
        /\ fbremote = run.fbremote
        /\ files = run.files
        /\ semaphore = k
        /\ stats = [ downloaded |-> 0, skipped |-> 0, failed |-> 0, total |-> 0,
                     downloaded_fallback |-> 0 ]
        /\ failed_items = << >>
        /\ missing_items = << >>
        /\ fallback_items = << >>
        /\ all_sets = << >>
        /\ phase = "fetch"
        /\ fetched = 0
        /\ launched = 0
        /\ tasks = << >>
        /\ cursor = 0
        /\ faults = 0
        /\ history = [ run |-> IF run \in RepeatedRuns THEN "first" ELSE "only",
                       catalog |-> << >>, replies |-> {}, outcomes |-> {},
                       first |-> NoLog ]

(***************************************************************************)
(* The orchestrator: run().                                                *)
(***************************************************************************)
\* the exception of a failed catalog request ends the run
after_fetch_fatal(ok) == IF ok THEN "fetch" ELSE "done"

\* fetch_sets lines 130-132: the exception is caught and [] is returned,
\* the loop of run() goes on
after_fetch(ok) == "fetch"

\* run(): sets = await self.fetch_sets(session, series); all_sets.extend(sets).
\* fetch_sets returns [] when the request or the parsing raises.
FetchSets ==
    /\ phase = "fetch"
    /\ fetched < Len(series_list)
    /\ \E ok \in CatalogAnswers(fetched + 1) :
           LET series == series_list[fetched + 1]
               sets == IF ok THEN fetch_sets(series, api[series]) ELSE << >>
           IN /\ all_sets' = all_sets \o sets
              /\ phase' = after_fetch(ok)
              /\ history' = [history EXCEPT !.catalog = Append(@, ok)]
    /\ fetched' = fetched + 1
    /\ UNCHANGED << series_list, languages, max_concurrency, api, remote,
                    fbremote, files, semaphore, stats, failed_items,
                    missing_items, fallback_items, launched, tasks,
                    cursor, faults >>

\* run(): total_tasks
RECURSIVE total_tasks(_, _)
total_tasks(sets, nlangs) ==
    IF sets = << >> THEN 0
    ELSE (IF total_cards(Head(sets)) = 0 THEN PROBE_ESTIMATE
          ELSE total_cards(Head(sets))) * nlangs
         + total_tasks(Tail(sets), nlangs)

\* run(): return when no set was found, else self.stats["total"] = total_tasks
Plan ==
    /\ phase = "fetch"
    /\ fetched = Len(series_list)
    /\ IF all_sets = << >>
       THEN /\ phase' = "done"
            /\ stats' = stats
       ELSE /\ phase' = "launch"
            /\ stats' = [stats EXCEPT !.total = total_tasks(all_sets, Len(languages))]
    /\ UNCHANGED << history, series_list, languages, max_concurrency, api, remote,
                    fbremote, files, semaphore, failed_items, missing_items,
                    fallback_items, all_sets, fetched, launched, tasks,
                    cursor, faults >>

\* process_set up to its gather: the coroutines of one set are created
ProcessSet ==
    /\ phase = "launch"
    /\ launched < Len(all_sets)
    /\ tasks' = tasks \o process_set(all_sets[launched + 1], languages)
    /\ launched' = launched + 1
    /\ UNCHANGED << history, series_list, languages, max_concurrency, api, remote,
                    fbremote, files, semaphore, stats, failed_items,
                    missing_items, fallback_items, all_sets, phase, fetched,
                    cursor, faults >>

AllLaunched == phase = "launch" /\ launched = Len(all_sets)

\* every coroutine has run up to its first suspension point
AllStarted == AllLaunched /\ cursor = Len(tasks)

Finished(task) == IF task.probe THEN task.pc = "stopped" ELSE task.pc = "returned"

\* run(): the gather over process_set returns
Finish ==
    /\ AllStarted
    /\ \A t \in 1..Len(tasks) : Finished(tasks[t])
    /\ phase' = "done"
    /\ UNCHANGED << history, series_list, languages, max_concurrency, api, remote,
                    fbremote, files, semaphore, stats, failed_items,
                    missing_items, fallback_items, all_sets, fetched, launched,
                    tasks, cursor, faults >>

(***************************************************************************)
(* The Item Fetcher: process_card, download_image, download_from_fallback. *)
(***************************************************************************)
\* the old file left where it is
NotUnlinked(path, raised) == files

\* png_path.unlink() when process_card finds the old file of a blacklisted
\* card: the file is gone, or the unlink raised and the file stays
Unlinked(path, raised) == IF raised THEN files ELSE files \ { path }

\* the skip counted as a download
RecordSkippedAsDownloaded == stats' = [stats EXCEPT !.downloaded = @ + 1]

\* process_card line 297: self.stats["skipped"] += 1
RecordSkipped == stats' = [stats EXCEPT !.skipped = @ + 1]

\* process_card up to its first await: blacklist check, existence check,
\* primary URL.  Coroutines take their first step in creation order.
Start(t) ==
    /\ AllLaunched
    /\ t \in 1..Len(tasks)
    /\ t <= cursor + 1
    /\ tasks[t].pc = "start"
    /\ cursor' = Max2(cursor, t)
    /\ LET task == tasks[t] IN
       IF is_blacklisted(task)
       THEN /\ \E raised \in BOOLEAN :
                /\ raised => (png_path(task) \in files /\ faults < MaxFaults)
                /\ files' = Unlinked(png_path(task), raised)
                /\ faults' = IF raised THEN faults + 1 ELSE faults
                /\ tasks' = [tasks EXCEPT ![t] =
                       [task EXCEPT !.pc = "fb_wait",
                                    !.fb_url = fallback_url(task),
                                    !.old_png =
                                        IF png_path(task) \notin files THEN "absent"
                                        ELSE IF raised THEN "kept" ELSE "deleted"]]
            /\ UNCHANGED << stats, history >>
       ELSE IF png_path(task) \in files
       THEN /\ RecordSkipped
            /\ tasks' = [tasks EXCEPT ![t] =
                   [task EXCEPT !.pc = "returned", !.result = << TRUE, FALSE >>]]
            /\ history' = LogOutcome(history, t, tasks'[t])
            /\ UNCHANGED << files, faults >>
       ELSE /\ tasks' = [tasks EXCEPT ![t] =
                   [task EXCEPT !.pc = "p_wait",
                                !.url = primary_url(task)]]
            /\ UNCHANGED << files, faults, stats, history >>
    /\ UNCHANGED << series_list, languages, max_concurrency, api, remote,
                    fbremote, semaphore, failed_items, missing_items,
                    fallback_items, all_sets, phase, fetched, launched >>

\* process_card with the primary request made outside the limiter
AcquireUnlimited(t) ==
    /\ AllStarted
    /\ t \in 1..Len(tasks)
    /\ tasks[t].pc = "p_wait"
    /\ tasks' = [tasks EXCEPT ![t] = [@ EXCEPT !.pc = "p_req", !.attempts = 1]]
    /\ UNCHANGED << history, series_list, languages, max_concurrency, api, remote,
                    fbremote, files, semaphore, stats, failed_items,
                    missing_items, fallback_items, all_sets, phase, fetched,
                    launched, cursor, faults >>

\* process_card: async with self.semaphore, then download_image's first
\* session.get is in flight
Acquire(t) ==
    /\ AllStarted
    /\ t \in 1..Len(tasks)
    /\ tasks[t].pc = "p_wait"
    /\ semaphore > 0
    /\ semaphore' = semaphore - 1
    /\ tasks' = [tasks EXCEPT ![t] =
           [@ EXCEPT !.pc = "p_req", !.held = @ + 1, !.attempts = 1]]
    /\ UNCHANGED << history, series_list, languages, max_concurrency, api, remote,
                    fbremote, files, stats, failed_items, missing_items,
                    fallback_items, all_sets, phase, fetched, launched,
                    cursor, faults >>

\* an error the environment injects is taken from the budget of the run; an
\* error the first run met is met again by the second
Injected(is_error, url, attempt) ==
    IF is_error /\ ~Replayed(url, attempt)
    THEN faults < MaxFaults /\ faults' = faults + 1
    ELSE faults' = faults

\* how one download_image attempt can end
PrimaryErrors == { "connect_error", "bad_status", "mkdir_error",
                   "payload_error", "write_error" }

\* what the primary host and the disk can answer to a GET of url
PrimaryOutcomes(url) ==
    IF url \in remote
    THEN { "ok" } \cup PrimaryErrors
    ELSE { "not_found", "connect_error", "bad_status" }

\* retry on any exception
RetryAnyException(kind) == kind \in PrimaryErrors

\* retry_if_exception_type((aiohttp.ClientError, asyncio.TimeoutError)):
\* connection errors and timeouts, ClientResponseError raised by
\* raise_for_status, ClientPayloadError raised while the body is streamed
Retryable(kind) == kind \in { "connect_error", "bad_status", "payload_error" }

\* a download that leaves nothing on disk
FileNeverOpened(kind) == FALSE

\* aiofiles.open(filepath, "wb") has run: the file exists
FileOpened(kind) == kind \in { "ok", "payload_error", "write_error" }

\* the coroutine ends without leaving its async with blocks
ReturnedHolding(task, result) ==
    [task EXCEPT !.pc = "returned", !.result = result]

\* process_card: the outcome is recorded and the coroutine returns, leaving
\* every async with self.semaphore block it is in
Returned(task, result) ==
    [task EXCEPT !.pc = "returned", !.result = result, !.held = 0]

\* the failure counted twice
RecordFailedTwice(entry) ==
    /\ stats' = [stats EXCEPT !.failed = @ + 2]
    /\ failed_items' = Append(failed_items, entry)

\* process_card lines 328-338: stats["failed"] += 1; failed_items.append(...)
RecordFailed(entry) ==
    /\ stats' = [stats EXCEPT !.failed = @ + 1]
    /\ failed_items' = Append(failed_items, entry)

\* the counter written from a value read before the first download ended
RecordDownloadedStale == stats' = [stats EXCEPT !.downloaded = 1]

\* process_card line 310: self.stats["downloaded"] += 1
RecordDownloaded == stats' = [stats EXCEPT !.downloaded = @ + 1]

\* one attempt of download_image ends, and process_card acts on it
PrimaryResponse(t, kind) ==
    /\ AllStarted
    /\ t \in 1..Len(tasks)
    /\ tasks[t].pc = "p_req"
    /\ kind \in Answers(tasks[t].url, tasks[t].attempts,
                         PrimaryOutcomes(tasks[t].url))
    /\ Injected(kind \in PrimaryErrors, tasks[t].url, tasks[t].attempts)
    /\ files' = IF FileOpened(kind) THEN files \cup { png_path(tasks[t]) } ELSE files
    /\ LET task == [tasks[t] EXCEPT !.last = kind] IN
       CASE kind = "ok" ->
              \* line 308: success
              /\ RecordDownloaded
              /\ tasks' = [tasks EXCEPT ![t] = Returned(task, << TRUE, FALSE >>)]
              /\ semaphore' = semaphore + task.held
              /\ UNCHANGED << failed_items >>
         [] kind = "not_found" /\ is_probe_mode(task) ->
              \* line 315: probe mode
              /\ tasks' = [tasks EXCEPT ![t] = Returned(task, << FALSE, TRUE >>)]
              /\ semaphore' = semaphore + task.held
              /\ UNCHANGED << stats, failed_items >>
         [] kind = "not_found" /\ ~is_probe_mode(task) ->
              \* line 321: download_from_fallback is entered, the permit is kept
              /\ tasks' = [tasks EXCEPT ![t] =
                     [task EXCEPT !.pc = "fb_wait",
                                  !.fb_url = fallback_url(task)]]
              /\ UNCHANGED << semaphore, stats, failed_items >>
         [] Retryable(kind) /\ task.attempts < MaxAttempts ->
              \* tenacity sleeps, then calls download_image again
              /\ tasks' = [tasks EXCEPT ![t] =
                     [task EXCEPT !.pc = "p_sleep",
                                  !.delays = Append(@, wait_exponential(task.attempts))]]
              /\ UNCHANGED << semaphore, stats, failed_items >>
         [] OTHER ->
              \* line 334: the exception reaches process_card
              /\ RecordFailed(<< task.card_set.set_code, task.url >>)
              /\ tasks' = [tasks EXCEPT ![t] = Returned(task, << FALSE, FALSE >>)]
              /\ semaphore' = semaphore + task.held
    /\ history' =
           LET h == LogReply(history, tasks[t].url, tasks[t].attempts, kind)
           IN IF tasks'[t].pc = "returned" THEN LogOutcome(h, t, tasks'[t]) ELSE h
    /\ UNCHANGED << series_list, languages, max_concurrency, api, remote,
                    fbremote, missing_items, fallback_items, all_sets, phase,
                    fetched, launched, cursor >>

\* tenacity: the sleep is over, download_image is called again
Retry(t) ==
    /\ AllStarted
    /\ t \in 1..Len(tasks)
    /\ tasks[t].pc = "p_sleep"
    /\ tasks' = [tasks EXCEPT ![t] = [@ EXCEPT !.pc = "p_req", !.attempts = @ + 1]]
    /\ UNCHANGED << history, series_list, languages, max_concurrency, api, remote,
                    fbremote, files, semaphore, stats, failed_items,
                    missing_items, fallback_items, all_sets, phase, fetched,
                    launched, cursor, faults >>

\* download_from_fallback: async with self.semaphore, then session.get is
\* in flight
AcquireFallback(t) ==
    /\ AllStarted
    /\ t \in 1..Len(tasks)
    /\ tasks[t].pc = "fb_wait"
    /\ semaphore > 0
    /\ semaphore' = semaphore - 1
    /\ tasks' = [tasks EXCEPT ![t] =
           [@ EXCEPT !.pc = "fb_req", !.held = @ + 1, !.fb_requests = @ + 1]]
    /\ UNCHANGED << history, series_list, languages, max_concurrency, api, remote,
                    fbremote, files, stats, failed_items, missing_items,
                    fallback_items, all_sets, phase, fetched, launched,
                    cursor, faults >>

FallbackErrors == { "error", "write_error" }

\* what the fallback host and the disk can answer to a GET of url
FallbackOutcomes(url) ==
    IF url \in fbremote THEN { "ok" } \cup FallbackErrors
    ELSE { "not_found", "error" }

\* every failed fallback handled as the fallback of a primary 404
called_for_primary_404(task) == FALSE

\* download_from_fallback was called at line 282, for a blacklisted card,
\* and not at line 321, after a primary 404
called_for_blacklisted(task) == task.url = NoUrl

\* download_from_fallback ends, and process_card acts on its result
FallbackResponse(t, kind) ==
    /\ AllStarted
    /\ t \in 1..Len(tasks)
    /\ tasks[t].pc = "fb_req"
    /\ kind \in Answers(tasks[t].fb_url, 1, FallbackOutcomes(tasks[t].fb_url))
    /\ Injected(kind \in FallbackErrors, tasks[t].fb_url, 1)
    /\ files' = IF kind \in { "ok", "write_error" }
                THEN files \cup { webp_path(tasks[t]) } ELSE files
    /\ LET task == tasks[t]
           success == kind = "ok"
       IN /\ IF success
             THEN \* lines 239-243
                  /\ fallback_items' = Append(fallback_items,
                         << task.card_set.set_code, task.number, task.lang,
                            task.fb_url >>)
                  /\ stats' = [stats EXCEPT !.downloaded_fallback = @ + 1]
                  /\ UNCHANGED << failed_items, missing_items >>
             ELSE IF called_for_blacklisted(task)
             THEN \* lines 285-289: the blacklisted card
                  /\ RecordFailed(<< task.card_set.set_code,
                                     fallback_tag(task.card_set.set_code, task.number) >>)
                  /\ UNCHANGED << fallback_items, missing_items >>
             ELSE \* lines 324-326: the primary 404
                  /\ missing_items' = Append(missing_items, missing_entry(task))
                  /\ UNCHANGED << fallback_items, failed_items, stats >>
          /\ tasks' = [tasks EXCEPT ![t] = Returned(task, << success, FALSE >>)]
          /\ semaphore' = semaphore + task.held
    /\ history' = LogOutcome(LogReply(history, tasks[t].fb_url, 1, kind),
                             t, tasks'[t])
    /\ UNCHANGED << series_list, languages, max_concurrency, api, remote,
                    fbremote, all_sets, phase, fetched, launched, cursor >>

(***************************************************************************)
(* The Probe Controller: probe_cards.                                      *)
(***************************************************************************)
\* the run-length counter never reset
count_all_404(is_404, count) == IF is_404 THEN count + 1 ELSE count

\* probe_cards lines 357-364: consecutive_404 after one outcome
count_consecutive_404(is_404, count) == IF is_404 THEN count + 1 ELSE 0

\* probe_cards lines 357-368: the loop body after process_card returned
ProbeStep(t) ==
    /\ AllStarted
    /\ t \in 1..Len(tasks)
    /\ tasks[t].probe
    /\ tasks[t].pc = "returned"
    /\ LET task == tasks[t]
           is_404 == task.result[2]
           count == count_consecutive_404(is_404, task.consecutive_404)
       IN tasks' = [tasks EXCEPT ![t] =
              IF (is_404 /\ count >= max_consecutive_404) \/ task.number >= max_number
              THEN [task EXCEPT !.pc = "stopped", !.consecutive_404 = count]
              ELSE [NewTask(task.card_set, task.lang, task.number + 1, TRUE)
                        EXCEPT !.consecutive_404 = count]]
    /\ UNCHANGED << history, series_list, languages, max_concurrency, api, remote,
                    fbremote, files, semaphore, stats, failed_items,
                    missing_items, fallback_items, all_sets, phase, fetched,
                    launched, cursor, faults >>

(***************************************************************************)
(* The tool is run a second time over the same directory.                  *)
(***************************************************************************)
\* main() again: a new PTCGPDownloader, the image tree as the first run left
\* it, the catalog and the image hosts as they were
Rerun ==
    /\ phase = "done"
    /\ history.run = "first"
    /\ history' = [ run |-> "second", catalog |-> << >>, replies |-> {},
                    outcomes |-> {},
                    first |-> [ catalog |-> history.catalog,
                                replies |-> history.replies,
                                outcomes |-> history.outcomes ] ]
    /\ semaphore' = max_concurrency
    /\ stats' = [ downloaded |-> 0, skipped |-> 0, failed |-> 0, total |-> 0,
                  downloaded_fallback |-> 0 ]
    /\ failed_items' = << >>
    /\ missing_items' = << >>
    /\ fallback_items' = << >>
    /\ all_sets' = << >>
    /\ phase' = "fetch"
    /\ fetched' = 0
    /\ launched' = 0
    /\ tasks' = << >>
    /\ cursor' = 0
    /\ faults' = 0
    /\ UNCHANGED << series_list, languages, max_concurrency, api, remote,
                    fbremote, files >>

Next ==
    \/ FetchSets
    \/ Plan
    \/ ProcessSet
    \/ \E t \in 1..Len(tasks) : Start(t)
    \/ \E t \in 1..Len(tasks) : Acquire(t)
    \/ \E t \in 1..Len(tasks), kind \in { "ok", "not_found" } \cup PrimaryErrors :
           PrimaryResponse(t, kind)
    \/ \E t \in 1..Len(tasks) : Retry(t)
    \/ \E t \in 1..Len(tasks) : AcquireFallback(t)
    \/ \E t \in 1..Len(tasks), kind \in { "ok", "not_found" } \cup FallbackErrors :
           FallbackResponse(t, kind)
    \/ \E t \in 1..Len(tasks) : ProbeStep(t)
    \/ Finish
    \/ Rerun

Spec == Init /\ [][Next]_vars

(***************************************************************************)
(* Properties.                                                             *)
(***************************************************************************)
Tasks == 1..Len(tasks)

Unfinished == { t \in Tasks : ~Finished(tasks[t]) }

\* the coroutines with an image request in flight, primary or fallback
InFlight == { t \in Tasks : tasks[t].pc \in { "p_req", "fb_req" } }

\* the coroutines suspended in self.semaphore.acquire()
Waiting == { t \in Tasks : tasks[t].pc \in { "p_wait", "fb_wait" } }

\* C1: no reachable state has every unfinished coroutine blocked waiting
\* for a permit of the global limiter while no permit is left, so every
\* process_card returns and the run terminates.
C1_NoLimiterDeadlock ==
    ~ ( /\ AllStarted
        /\ Unfinished # {}
        /\ Unfinished \subseteq Waiting
        /\ semaphore = 0 )

\* C2: the number of image requests in flight, primary and fallback
\* together, over all sets, languages and probe scans, never exceeds the
\* concurrency limit.
C2_InFlightBounded ==
    /\ Cardinality(InFlight) <= max_concurrency
    /\ semaphore >= 0

\* C2 witness: the limit is reached while another coroutine waits.
C2_Witness ==
    /\ Cardinality(InFlight) = max_concurrency
    /\ \E t \in Tasks : tasks[t].pc = "p_wait"

\* the target of coroutine t is in BLACKLIST
Blacklisted(t) == << tasks[t].card_set.set_code, tasks[t].number >> \in BLACKLIST

\* C3: for a blacklisted target, in bulk or probe mode and whatever is on
\* disk, no primary URL is built and no primary request is made, the
\* fallback source is entered as soon as the target is processed, and a
\* processed target has had exactly one fallback request.
C3_BlacklistSkipsPrimary ==
    \A t \in Tasks : Blacklisted(t) =>
        /\ tasks[t].url = NoUrl
        /\ tasks[t].attempts = 0
        /\ tasks[t].pc \notin { "p_wait", "p_req", "p_sleep" }
        /\ tasks[t].pc # "start" =>
               tasks[t].fb_url = get_fallback_url(tasks[t].card_set.set_code,
                                                  tasks[t].number)
        /\ tasks[t].pc \in { "returned", "stopped" } => tasks[t].fb_requests = 1

\* C3 witness: a blacklisted target was fetched from the fallback source
\* although its png file is on disk.
C3_Witness ==
    \E t \in Tasks :
        /\ Blacklisted(t)
        /\ tasks[t].pc = "returned"
        /\ tasks[t].fb_requests = 1
        /\ get_image_path(tasks[t].lang, A1a, 63, PNG) \in files

\* process_card skipped the target of coroutine t in this step: no request,
\* Skipped-exists, only the skipped counter moved
SkippedStep(t) ==
    /\ tasks'[t].pc = "returned"
    /\ tasks'[t].result = << TRUE, FALSE >>
    /\ tasks'[t].url = NoUrl
    /\ tasks'[t].fb_url = NoUrl
    /\ tasks'[t].attempts = 0
    /\ tasks'[t].fb_requests = 0
    /\ stats' = [stats EXCEPT !.skipped = @ + 1]
    /\ UNCHANGED << files, semaphore, failed_items, missing_items, fallback_items >>

\* process_card runs for the target of coroutine t, whose png file exists
ProcessedExisting(t) ==
    /\ tasks[t].pc = "start"
    /\ get_image_path(tasks[t].lang, tasks[t].card_set.set_code,
                      tasks[t].number, PNG) \in files
    /\ tasks'[t].pc # "start"

\* C4 as stated: any target whose file exists when it is processed makes no
\* network call, returns Skipped-exists and increments only the skipped
\* counter.
C4_AnyExistingSkipped ==
    [][\A t \in Tasks : ProcessedExisting(t) => SkippedStep(t)]_vars

\* C4 amended: any target that is not blacklisted and whose png file exists
\* when it is processed makes no network call, returns Skipped-exists and
\* increments only the skipped counter.
C4_ExistingSkipped ==
    [][\A t \in Tasks :
          ProcessedExisting(t) /\ ~Blacklisted(t) => SkippedStep(t)]_vars

\* C4 witness: a target was skipped because its png file exists.
C4_Witness ==
    \E t \in Tasks :
        /\ ~Blacklisted(t)
        /\ tasks[t].pc = "returned"
        /\ tasks[t].url = NoUrl
        /\ tasks[t].attempts = 0
        /\ tasks[t].fb_requests = 0
        /\ tasks[t].result = << TRUE, FALSE >>
        /\ get_image_path(tasks[t].lang, tasks[t].card_set.set_code,
                          tasks[t].number, PNG) \in files
        /\ stats.skipped > 0

ProbeTasks == { t \in Tasks : tasks[t].probe }

\* the primary host answered 404 to the request of coroutine t
Got404(t) == tasks[t].last = "not_found"

\* the run of the example: cards 1-5 and 7 are on the primary host, the disk
\* holds no file but of these cards, and no request has ended Failed
ExampleScan ==
    /\ get_image_url(3, 7, "zh-TW") \in remote
    /\ get_image_url(3, 8, "zh-TW") \notin remote
    /\ remote = Serves(3, (1..5) \cup { 7 })
    /\ files \subseteq PngFiles(B1, (1..5) \cup { 7 })
    /\ stats.failed = 0

C5_State ==
    \A t \in ProbeTasks :
        /\ tasks[t].number \in 1..max_number
        /\ tasks[t].pc # "stopped" => tasks[t].consecutive_404 < max_consecutive_404
        /\ tasks[t].pc = "stopped" =>
               \/ tasks[t].consecutive_404 = max_consecutive_404
               \/ tasks[t].number = max_number
        /\ ExampleScan =>
               /\ tasks[t].number <= 10
               /\ tasks[t].pc = "stopped" => tasks[t].number = 10

C5_Step ==
    \A t \in ProbeTasks : t \in 1..Len(tasks') =>
        LET after == IF Got404(t) THEN tasks[t].consecutive_404 + 1 ELSE 0 IN
        /\ tasks'[t].number \in { tasks[t].number, tasks[t].number + 1 }
        /\ tasks'[t].number = tasks[t].number + 1 =>
               /\ tasks[t].pc = "returned"
               /\ tasks'[t].pc = "start"
               /\ tasks'[t].consecutive_404 = after
        /\ (tasks'[t].pc = "stopped" /\ tasks[t].pc # "stopped") =>
               /\ tasks[t].pc = "returned"
               /\ tasks'[t].consecutive_404 = after
        /\ (tasks'[t].number = tasks[t].number /\ tasks'[t].pc # "stopped") =>
               tasks'[t].consecutive_404 = tasks[t].consecutive_404
        /\ tasks[t].pc = "stopped" => tasks'[t] = tasks[t]

\* C5: a probe scan visits 1, 2, 3, ... in order, one number at a time; its
\* counter of consecutive 404 outcomes is reset to 0 by any other outcome;
\* it stops right after the number at which the counter reaches 3 or after
\* number 200, and requests nothing beyond; with cards 1-5 and 7 present,
\* every request answered with the card or a 404, and no other file on
\* disk, it visits exactly 1..10.
C5_ProbeScan == []C5_State /\ [][C5_Step]_vars

\* C5 witness: the scan of the example stopped at 10 on the third 404 in a
\* row, after six cards were downloaded or found on disk.
C5_Witness ==
    /\ ExampleScan
    /\ stats.downloaded + stats.skipped = 6
    /\ \E t \in ProbeTasks :
           /\ tasks[t].pc = "stopped"
           /\ tasks[t].number = 10
           /\ tasks[t].consecutive_404 = max_consecutive_404

\* no entry of the list names the primary URL of coroutine t
NotListed(list, t) == \A i \in 1..Len(list) : list[i][2] # tasks[t].url

C6_State ==
    \A t \in ProbeTasks : ~Blacklisted(t) =>
        /\ tasks[t].fb_requests = 0
        /\ tasks[t].fb_url = NoUrl
        /\ tasks[t].pc \notin { "fb_wait", "fb_req" }
        /\ \A i \in 1..Len(missing_items) :
               missing_items[i][1] # tasks[t].card_set.set_code
        /\ Got404(t) =>
               /\ tasks[t].pc \in { "returned", "stopped" }
               /\ tasks[t].result = << FALSE, TRUE >>
               /\ NotListed(failed_items, t)

C6_Step ==
    \A t \in ProbeTasks :
        (tasks[t].pc = "p_req" /\ tasks'[t].pc # "p_req"
            /\ tasks'[t].last = "not_found") =>
        /\ tasks'[t].pc = "returned"
        /\ UNCHANGED << stats, failed_items, missing_items, fallback_items, files >>

\* C6: in probe mode a 404 never leads to a fallback request and is never
\* recorded: the step that receives it leaves the missing list, the failed
\* list and the counters as they were.
C6_Probe404NotRecorded == []C6_State /\ [][C6_Step]_vars

\* C6 witness: a probed number was answered 404 and nothing was recorded.
C6_Witness ==
    \E t \in ProbeTasks :
        /\ Got404(t)
        /\ tasks[t].pc = "returned"
        /\ stats.failed = 0
        /\ failed_items = << >>
        /\ missing_items = << >>

HasReturned(t) == tasks[t].pc \in { "returned", "stopped" }

\* the list holds the entry exactly once
ListedOnce(list, entry) == Cardinality({ i \in 1..Len(list) : list[i] = entry }) = 1

SetCode(t) == tasks[t].card_set.set_code

\* the primary URL of the target of coroutine t
PrimaryUrl(t) == get_image_url(tasks[t].card_set.id, tasks[t].number, tasks[t].lang)

\* a bulk-mode target that is not blacklisted got a primary 404
BulkMiss(t) == ~tasks[t].probe /\ ~Blacklisted(t) /\ Got404(t)

\* C7: in bulk mode a primary 404 for a target that is not blacklisted is
\* followed by one fallback request and never a second; when it succeeds
\* the target is Downloaded-fallback, when it fails the target is Missing
\* and the missing list holds (set_code, primary URL); no entry of the
\* missing list is a fallback URL.
C7_BulkMissFallsBack ==
    /\ \A t \in Tasks : BulkMiss(t) =>
           /\ tasks[t].pc \in { "fb_wait", "fb_req", "returned" }
           /\ tasks[t].fb_requests = (IF tasks[t].pc = "fb_wait" THEN 0 ELSE 1)
           /\ NotListed(failed_items, t)
           /\ tasks[t].pc = "returned" =>
                  IF tasks[t].result[1]
                  THEN /\ tasks[t].result = << TRUE, FALSE >>
                       /\ ListedOnce(fallback_items,
                              << SetCode(t), tasks[t].number, tasks[t].lang,
                                 get_fallback_url(SetCode(t), tasks[t].number) >>)
                       /\ NotListed(missing_items, t)
                  ELSE /\ tasks[t].result = << FALSE, FALSE >>
                       /\ ListedOnce(missing_items, << SetCode(t), PrimaryUrl(t) >>)
    /\ \A i \in 1..Len(missing_items) : missing_items[i][2][1] = "IMAGE_BASE_URL"
    /\ stats.downloaded_fallback = Len(fallback_items)

\* C7 witness: a primary 404 whose fallback failed was recorded Missing.
C7_Witness ==
    \E t \in Tasks :
        /\ BulkMiss(t)
        /\ tasks[t].pc = "returned"
        /\ tasks[t].fb_requests = 1
        /\ tasks[t].result = << FALSE, FALSE >>
        /\ missing_items = << << SetCode(t), PrimaryUrl(t) >> >>

\* the delays tenacity made: 1 unit first, doubling, never above 10
DelaysDouble(delays) ==
    \A i \in 1..Len(delays) :
        /\ delays[i] <= 10
        /\ i = 1 => delays[i] = 1
        /\ i > 1 => /\ delays[i] = Min2(2 * delays[i - 1], 10)
                    /\ delays[i] >= delays[i - 1]

\* no other coroutine has the target of coroutine t
Sole(t) ==
    \A u \in Tasks \ { t } :
        << SetCode(u), tasks[u].number, tasks[u].lang >>
            # << SetCode(t), tasks[t].number, tasks[t].lang >>

C8_State ==
    /\ stats.failed = Len(failed_items)
    /\ \A t \in Tasks :
        /\ tasks[t].attempts <= 3
        /\ Len(tasks[t].delays) =
               (IF tasks[t].pc = "p_sleep" THEN tasks[t].attempts
                ELSE Max2(tasks[t].attempts - 1, 0))
        /\ DelaysDouble(tasks[t].delays)
        /\ (HasReturned(t) /\ tasks[t].attempts = 3 /\ tasks[t].last = "ok") =>
               /\ tasks[t].result = << TRUE, FALSE >>
               /\ Sole(t) => NotListed(failed_items, t)
        /\ (HasReturned(t) /\ tasks[t].attempts = 3 /\ tasks[t].last \in PrimaryErrors) =>
               /\ tasks[t].result = << FALSE, FALSE >>
               /\ Sole(t) => ListedOnce(failed_items, << SetCode(t), PrimaryUrl(t) >>)

C8_Step ==
    \A t \in Tasks :
        (tasks[t].pc = "p_req" /\ tasks'[t].pc = "returned" /\ tasks'[t].last = "ok") =>
            /\ stats' = [stats EXCEPT !.downloaded = @ + 1]
            /\ failed_items' = failed_items

C9_OnlyTransientRetried ==
    \A t \in Tasks :
        tasks[t].last \in { "not_found", "bad_status", "mkdir_error", "write_error" }
            => tasks[t].pc \notin { "p_sleep", "p_req" }

\* C9 amended: a 404, a directory error and a file write error are never
\* followed by another attempt; connection errors, timeouts and a non-2xx
\* status other than 404 (a ClientResponseError, which is a ClientError)
\* are retried until 3 attempts were made.
C9_ClientErrorsRetried ==
    \A t \in Tasks :
        /\ tasks[t].last \in { "not_found", "mkdir_error", "write_error" }
               => tasks[t].pc \notin { "p_sleep", "p_req" }
        /\ tasks[t].pc = "p_sleep" => tasks[t].attempts < 3
        /\ (tasks[t].pc = "p_req" /\ tasks[t].attempts > 1) =>
               tasks[t].last \in { "connect_error", "payload_error", "bad_status" }
        /\ (HasReturned(t) /\ tasks[t].last \in
                { "connect_error", "payload_error", "bad_status" }) =>
               tasks[t].attempts = 3

\* C9 witness: a request answered with a non-2xx status other than 404 on
\* each of its 3 attempts.
C9_Witness ==
    \E t \in Tasks :
        /\ tasks[t].pc = "returned"
        /\ tasks[t].last = "bad_status"
        /\ tasks[t].attempts = 3
        /\ faults = 3
        /\ \A i \in 1..Len(failed_items) : failed_items[i][2] = tasks[t].url

\* C10: every fallback request goes to the en-US path; the fallback URL of
\* two targets with the same (set_code, number) is the same whatever their
\* languages; the file of a successful fallback is the webp file of the
\* requested language's directory, and no png file is written for it.
C10_FallbackIsEnglish ==
    /\ \A t \in Tasks : tasks[t].fb_url # NoUrl => tasks[t].fb_url[2] = "en-US"
    /\ \A t, u \in Tasks :
           ( /\ tasks[t].fb_url # NoUrl
             /\ tasks[u].fb_url # NoUrl
             /\ SetCode(t) = SetCode(u)
             /\ tasks[t].number = tasks[u].number ) =>
           tasks[t].fb_url = tasks[u].fb_url
    /\ \A t \in Tasks :
           (HasReturned(t) /\ tasks[t].fb_requests = 1 /\ tasks[t].result[1]) =>
               /\ get_image_path(tasks[t].lang, SetCode(t), tasks[t].number, WEBP)
                      \in files
               /\ ~Blacklisted(t) =>
                      get_image_path(tasks[t].lang, SetCode(t), tasks[t].number, PNG)
                          \notin files

\* C10 witness: the same card fetched from the fallback source for zh-TW
\* and for en-US.
C10_Witness ==
    \E t, u \in Tasks :
        /\ tasks[t].lang = "zh-TW"
        /\ tasks[u].lang = "en-US"
        /\ SetCode(t) = SetCode(u)
        /\ tasks[t].number = tasks[u].number
        /\ tasks[t].pc = "returned" /\ tasks[t].result = << TRUE, FALSE >>
        /\ tasks[u].pc = "returned" /\ tasks[u].result = << TRUE, FALSE >>
        /\ tasks[t].fb_requests = 1
        /\ tasks[u].fb_requests = 1
        /\ tasks[t].fb_url = tasks[u].fb_url

\* the entries of an outcome log that ended as one of `kinds`
Ended(log, kinds) == { e \in log : e[3] \in kinds }

\* the targets the first run left fetched from the primary source
FetchedBefore == Ended(history.first.outcomes, { "Downloaded", "Skipped-exists" })

\* C11: when the tool is run a second time over the same directory, with
\* the catalog, the image hosts and the disk answering as they did in the
\* first run, the second run has no Downloaded outcome: every target that
\* ended Downloaded or Skipped-exists in the first run ends Skipped-exists,
\* and when the second run is over all of them have.
C11_SecondRunSkips ==
    history.run = "second" =>
        /\ stats.downloaded = 0
        /\ Ended(history.outcomes, { "Downloaded" }) = {}
        /\ \A e \in history.outcomes :
               (\E f \in FetchedBefore : f[1] = e[1] /\ f[2] = e[2])
                   => e[3] = "Skipped-exists"
        /\ phase = "done" =>
               \A f \in FetchedBefore :
                   << f[1], f[2], "Skipped-exists" >> \in history.outcomes

\* C11 witness: a second run is over that skipped a target the first run
\* downloaded, and met again the failure of a target the first run failed.
C11_Witness ==
    /\ history.run = "second"
    /\ phase = "done"
    /\ Ended(history.first.outcomes, { "Downloaded" }) # {}
    /\ stats.skipped = Cardinality(FetchedBefore)
    /\ stats.failed = 1
    /\ Ended(history.first.outcomes, { "Failed" }) # {}

\* the five outcome records: the downloaded, downloaded-fallback, skipped
\* and failed counters and the missing list
Records ==
    << stats.downloaded, stats.downloaded_fallback, stats.skipped,
       stats.failed, Len(missing_items) >>

RecordsAfter ==
    << stats'.downloaded, stats'.downloaded_fallback, stats'.skipped,
       stats'.failed, Len(missing_items') >>

\* the record an outcome is made in
RecordOf(outcome) ==
    CASE outcome = "Downloaded" -> 1
      [] outcome = "Downloaded-fallback" -> 2
      [] outcome = "Skipped-exists" -> 3
      [] outcome = "Failed" -> 4
      [] outcome = "Missing" -> 5
      [] OTHER -> 0

\* the records with one more entry in record i, or unchanged when i = 0
Bumped(i) == [ j \in 1..5 |-> IF j = i THEN Records[j] + 1 ELSE Records[j] ]

\* the invocation of process_card in coroutine t returns in this step
Returns(t) ==
    /\ Len(tasks') = Len(tasks)
    /\ tasks[t].pc # "returned"
    /\ tasks'[t].pc = "returned"

\* the same run goes on in this step
SameRun == history'.run = history.run

\* C12 as stated: every invocation of process_card that returns, in bulk or
\* probe mode, makes exactly one outcome record.
C12_EveryReturnRecorded ==
    [][\A t \in Tasks : Returns(t) =>
           \E i \in 1..5 : RecordsAfter = Bumped(i)]_vars

\* C12 amended: every invocation of process_card that returns makes exactly
\* one outcome record, the one of its outcome, but for a probe-mode
\* invocation whose primary request is answered 404, which makes none; and
\* no record is made but by a returning invocation.
C12_OneRecordUnlessProbe404 ==
    [][/\ \A t \in Tasks : Returns(t) =>
              /\ RecordsAfter = Bumped(RecordOf(Outcome(tasks'[t])))
              /\ RecordOf(Outcome(tasks'[t])) = 0 <=>
                     (tasks[t].probe /\ tasks'[t].last = "not_found"
                        /\ tasks[t].pc = "p_req")
       /\ (SameRun /\ RecordsAfter # Records) => \E t \in Tasks : Returns(t)
      ]_vars

\* C12 witness: a probe scan in which one number was downloaded, with one
\* record, and another was answered 404, with none.
C12_Witness ==
    /\ Ended(history.outcomes, { "NotFound" }) # {}
    /\ Ended(history.outcomes, { "Downloaded" }) # {}
    /\ Records = << 1, 0, 0, 0, 0 >>
    /\ Cardinality(history.outcomes) > 1

\* C13: no two coroutines of a run process the same DownloadTarget
\* (set_code, number, language), so no two requests in flight are for the
\* same image slot.
C13_TargetProcessedOnce ==
    /\ \A t, u \in Tasks : t # u => Target(tasks[t]) # Target(tasks[u])
    /\ \A t, u \in InFlight : t # u => png_path(tasks[t]) # png_path(tasks[u])

\* the permits held by the first n coroutines
RECURSIVE HeldUpTo(_)
HeldUpTo(n) == IF n = 0 THEN 0 ELSE tasks[n].held + HeldUpTo(n - 1)

\* the request of coroutine t ends in this step with an error that is not
\* retried: a transport error or non-2xx status on the last attempt, a
\* filesystem error, a failure of the fallback request
FailsIn(t) ==
    /\ Len(tasks') = Len(tasks)
    /\ \/ /\ tasks[t].pc = "p_req"
          /\ tasks'[t].pc \notin { "p_req", "p_sleep" }
          /\ tasks'[t].last \in PrimaryErrors
       \/ /\ tasks[t].pc = "fb_req"
          /\ tasks'[t].pc # "fb_req"
          /\ ~tasks'[t].result[1]

C14_State ==
    /\ semaphore + HeldUpTo(Len(tasks)) = max_concurrency
    /\ \A t \in Tasks :
           /\ tasks[t].pc \in { "start", "p_wait", "p_req", "p_sleep", "fb_wait",
                                 "fb_req", "returned", "stopped" }
           /\ HasReturned(t) =>
                  /\ tasks[t].held = 0
                  /\ tasks[t].result \in { << TRUE, FALSE >>, << FALSE, FALSE >>,
                                            << FALSE, TRUE >> }
           /\ (HasReturned(t) /\ tasks[t].last \in PrimaryErrors) =>
                  /\ tasks[t].result = << FALSE, FALSE >>
                  /\ \E i \in 1..Len(failed_items) :
                         failed_items[i] = << SetCode(t), tasks[t].url >>

C14_Step ==
    \A t \in Tasks :
        /\ FailsIn(t) =>
               /\ tasks'[t].pc = "returned"
               /\ tasks'[t].result = << FALSE, FALSE >>
               /\ RecordsAfter \in { Bumped(4), Bumped(5) }
               /\ semaphore' = semaphore + tasks[t].held
               /\ phase' = phase
               /\ \A u \in Tasks \ { t } : tasks'[u] = tasks[u]
        /\ ( /\ tasks[t].probe
             /\ tasks[t].pc = "returned"
             /\ tasks[t].result = << FALSE, FALSE >>
             /\ tasks[t].number < max_number
             /\ Len(tasks') = Len(tasks)
             /\ tasks'[t] # tasks[t] ) =>
               /\ tasks'[t].pc = "start"
               /\ tasks'[t].number = tasks[t].number + 1

ItemOf(card_set) ==
    LET data == api[card_set.series]
    IN data[CHOOSE i \in 1..Len(data) : data[i].id = card_set.id]

\* the sets built of a catalog record with the code PROMO
PromoSets == { i \in 1..Len(all_sets) : ItemOf(all_sets[i]).set_code = PROMO }

\* the catalog code PROMO becomes PROMO-<S>, every other code is kept
Rewritten ==
    /\ \A i \in PromoSets :
           /\ all_sets[i].set_code = PROMO_DASH \o StrUpper(all_sets[i].series)
           /\ all_sets[i].series = << "b" >> => all_sets[i].set_code = PROMO_B
    /\ \A i \in 1..Len(all_sets) :
           i \notin PromoSets => all_sets[i].set_code = ItemOf(all_sets[i]).set_code
    /\ \A i, j \in PromoSets :
           StrUpper(all_sets[i].series) # StrUpper(all_sets[j].series)
               => all_sets[i].set_code # all_sets[j].set_code

\* the path segment <code>-<number> of the fallback URL of coroutine t
Segment(t) == tasks[t].fb_url[3]

\* the segment P-<X>-n of the set code PROMO-<X>, in the case of the code
PromoSegment(t) ==
    << "P", "-" >> \o DropPrefix(SetCode(t), 6) \o << "-" >> \o Dec(tasks[t].number)

PlainSegment(t) == SetCode(t) \o << "-" >> \o Dec(tasks[t].number)

RECURSIVE SetsOfFirst(_)
SetsOfFirst(n) ==
    IF n = 0 THEN << >>
    ELSE SetsOfFirst(n - 1) \o
         (IF history.catalog[n]
          THEN fetch_sets(series_list[n], api[series_list[n]])
          ELSE << >>)

\* C16: a failed catalog request makes its series contribute no set and
\* nothing else: the requests for the series after it are still made, the
\* sets of every other series are kept, each of them gets its coroutines,
\* and when the run is over all of these have finished.
C16_CatalogFailureNonFatal ==
    /\ Len(history.catalog) = fetched
    /\ all_sets = SetsOfFirst(fetched)
    /\ phase # "fetch" => fetched = Len(series_list)
    /\ (AllLaunched \/ (phase = "done" /\ all_sets # << >>)) =>
           \A i \in 1..Len(all_sets) :
               \E t \in Tasks : tasks[t].card_set = all_sets[i]
    /\ phase = "done" => \A t \in Tasks : Finished(tasks[t])

\* C16 witness: the request for series a failed, the promo pool of series b
\* was fetched and its 5 cards were processed to the end of the run.
C16_Witness ==
    /\ phase = "done"
    /\ series_list = << SeriesA, SeriesB >>
    /\ history.catalog = << FALSE, TRUE >>
    /\ Len(all_sets) = 1
    /\ all_sets[1].set_code = PROMO_B
    /\ Len(tasks) = 5
    /\ \A t \in Tasks : tasks[t].pc = "returned"
    /\ stats.skipped = 4

\* the fallback request of coroutine t fails in this step
FallbackFailsIn(t) ==
    /\ Len(tasks') = Len(tasks)
    /\ tasks[t].pc = "fb_req"
    /\ tasks'[t].pc = "returned"
    /\ ~tasks'[t].result[1]

\* the failed-list entry of a blacklisted target
FallbackTag(t) == << SetCode(t), fallback_tag(SetCode(t), tasks[t].number) >>

C17_State ==
    \A t \in Tasks :
        /\ (Blacklisted(t) /\ HasReturned(t)) =>
               /\ Outcome(tasks[t]) \in { "Downloaded-fallback", "Failed" }
               /\ tasks[t].result[1] =>
                      ListedOnce(fallback_items,
                          << SetCode(t), tasks[t].number, tasks[t].lang,
                             get_fallback_url(SetCode(t), tasks[t].number) >>)
               /\ ~tasks[t].result[1] =>
                      /\ ListedOnce(failed_items, FallbackTag(t))
                      /\ stats.failed >= 1
                      /\ \A i \in 1..Len(missing_items) :
                             missing_items[i] # << SetCode(t), PrimaryUrl(t) >>
        /\ (BulkMiss(t) /\ HasReturned(t) /\ ~tasks[t].result[1]) =>
               /\ Outcome(tasks[t]) = "Missing"
               /\ ListedOnce(missing_items, << SetCode(t), PrimaryUrl(t) >>)
               /\ \A i \in 1..Len(failed_items) :
                      failed_items[i] \notin { << SetCode(t), PrimaryUrl(t) >>,
                                                FallbackTag(t) }

C17_Step ==
    \A t \in Tasks : FallbackFailsIn(t) =>
        IF Blacklisted(t)
        THEN /\ stats' = [stats EXCEPT !.failed = @ + 1]
             /\ failed_items' = Append(failed_items, FallbackTag(t))
             /\ missing_items' = missing_items
        ELSE /\ stats' = stats
             /\ failed_items' = failed_items
             /\ missing_items' = Append(missing_items, << SetCode(t), PrimaryUrl(t) >>)

\* C17: a blacklisted target ends Downloaded-fallback or Failed; when its
\* fallback request fails, the failed counter goes up by one, the failed
\* list gets its entry and the missing list is left alone; when the
\* fallback request of a bulk-mode target that is not blacklisted fails
\* after a primary 404, the missing list gets its entry and the failed
\* counter and the failed list are left alone.
C17_BlacklistFailsNotMissing == []C17_State /\ [][C17_Step]_vars

\* C17 witness: in one set, the fallback of blacklisted card 63 failed and
\* was recorded Failed, and the fallback of card 62 failed after a primary
\* 404 and was recorded Missing.
C17_Witness ==
    \E t, u \in Tasks :
        /\ Blacklisted(t) /\ tasks[t].pc = "returned"
        /\ tasks[t].result = << FALSE, FALSE >>
        /\ BulkMiss(u) /\ tasks[u].pc = "returned"
        /\ tasks[u].result = << FALSE, FALSE >>
        /\ failed_items = << FallbackTag(t) >>
        /\ missing_items = << << SetCode(u), PrimaryUrl(u) >> >>
        /\ stats.failed = 1

\* the files of the slot of coroutine t
Slot(t) == { png_path(tasks[t]), webp_path(tasks[t]) }

C18_State ==
    \A t \in Tasks : (Blacklisted(t) /\ tasks[t].pc # "start") =>
        /\ tasks[t].old_png \in { "absent", "deleted", "kept" }
        /\ tasks[t].old_png # "kept" => png_path(tasks[t]) \notin files

C18_Step ==
    \A t \in Tasks :
        (Blacklisted(t) /\ Len(tasks') = Len(tasks) /\ tasks'[t] # tasks[t]) =>
            /\ files' \ Slot(t) = files \ Slot(t)
            /\ (tasks[t].pc = "start" /\ tasks'[t].pc # "start") =>
                   /\ tasks'[t].pc = "fb_wait"
                   /\ tasks'[t].fb_requests = 0
                   /\ files' \in { files, files \ { png_path(tasks[t]) } }
                   /\ (png_path(tasks[t]) \in files /\ faults' = faults) =>
                          /\ tasks'[t].old_png = "deleted"
                          /\ files' = files \ { png_path(tasks[t]) }
            /\ tasks[t].pc # "start" =>
                   (png_path(tasks[t]) \in files' <=> png_path(tasks[t]) \in files)

\* C18: processing a blacklisted target deletes the png file of its slot,
\* if there is one, in the step that enters the fallback source, before
\* the fallback request is made; unless the delete itself fails, no png
\* file of the slot exists from then on, whether the fallback request
\* succeeds or fails; the files of every other slot are left as they were.
C18_BlacklistDeletesPng == []C18_State /\ [][C18_Step]_vars

\* C18 witness: the old png of blacklisted card 63 was deleted, the
\* fallback request failed, and the png files of cards 1..61 are in place.
C18_Witness ==
    \E t \in Tasks :
        /\ Blacklisted(t)
        /\ tasks[t].pc = "returned"
        /\ tasks[t].old_png = "deleted"
        /\ tasks[t].result = << FALSE, FALSE >>
        /\ png_path(tasks[t]) \notin files
        /\ webp_path(tasks[t]) \notin files
        /\ get_image_path(tasks[t].lang, A1a, 61, PNG) \in files

\* how many invocations of this run ended as `outcome`
Count(outcome) == Cardinality(Ended(history.outcomes, { outcome }))

\* how many entries of the list are for the set code and URL given
Listed(list, set_code, url) ==
    Cardinality({ i \in 1..Len(list) : list[i] = << set_code, url >> })

\* C19: under every interleaving of the coroutines no increment and no
\* append is lost: at every moment of a run, and so at its end, each
\* counter is the number of invocations that ended with its outcome, the
\* failed counter is the length of the failed list, the downloaded-fallback
\* counter the length of the fallback-succeeded list, and the missing list
\* has one entry for each invocation that ended Missing.
C19_StatsConsistent ==
    /\ stats.downloaded = Count("Downloaded")
    /\ stats.downloaded_fallback = Count("Downloaded-fallback")
    /\ stats.skipped = Count("Skipped-exists")
    /\ stats.failed = Count("Failed")
    /\ stats.failed = Len(failed_items)
    /\ stats.downloaded_fallback = Len(fallback_items)
    /\ Len(missing_items) = Count("Missing")
    /\ \A e \in Ended(history.outcomes, { "Missing" }) :
           Listed(missing_items, e[2][1],
                  get_image_url(tasks[e[1]].card_set.id, e[2][2], e[2][3]))
               = Cardinality({ f \in Ended(history.outcomes, { "Missing" }) :
                                 f[2] = e[2] })
    /\ phase = "done" =>
           \A t \in Tasks : \E e \in history.outcomes :
               e[1] = t /\ e[2] = Target(tasks[t])

\* C19 witness: with two permits, the second coroutine's download was
\* counted while the first is suspended between its attempts.
C19_Witness ==
    /\ max_concurrency = 2
    /\ Len(tasks) = 2
    /\ tasks[1].pc = "p_sleep"
    /\ tasks[1].held = 1
    /\ tasks[2].pc = "returned"
    /\ tasks[2].last = "ok"
    /\ tasks[2].attempts = 2
    /\ stats.downloaded = 1
    /\ Count("Downloaded") = 1

\* the target of a log entry ended, in this run, as one of `kinds`
EndedAs(e, kinds) == \E f \in Ended(history.outcomes, kinds) : f[2] = e[2]

\* C20: when a run is over, the png file of a target that is not
\* blacklisted exists only if the target ended Downloaded or
\* Skipped-exists in this run: a target that ended Failed or Missing has
\* no file at its png path.
C20_NoPngUnlessFetched ==
    phase = "done" =>
        \A e \in Ended(history.outcomes, { "Failed", "Missing" }) :
            ( /\ << e[2][1], e[2][2] >> \notin BLACKLIST
              /\ ~EndedAs(e, { "Downloaded", "Skipped-exists" }) ) =>
                get_image_path(e[2][3], e[2][1], e[2][2], PNG) \notin files

====
